---- MODULE Spec2Model ----
(***************************************************************************)
(* Agent Delegation Protocol: the store (storage_manager.py), the          *)
(* delegation entity (data_models.py), the authorization server            *)
(* (auth_server.py) and the resource server (resource_server.py).          *)
(*                                                                         *)
(* Time is counted in ticks of the token timestamp resolution; the clock   *)
(* `now` only moves forward.  A signed token is the record of its header   *)
(* and claims: HS256 is deterministic, so two tokens with the same claims  *)
(* are the same string.                                                    *)
(***************************************************************************)
EXTENDS Integers, Sequences, FiniteSets, TLC

\* ------------------------------------------------------------------ bounds
MaxTime == 2
MaxDelegations == 2
MaxIssued == 1
MaxGenerated == 2
MaxMinted == 2
MaxRevokeCalls == 2
MaxRedirects == 1
MaxUpdates == 1

\* configured lifetimes (config.py, environment-configurable, positive)
access_token_expiry == 1
delegation_token_expiry == 1

\* ------------------------------------------------------------------ values
Threads == {1, 2}
DefaultAgent == "agent-client-id"
AgentIds == {DefaultAgent, "a2"}
UserIds == {"alice", "bob"}
ScopeInputs == {"read:data"}
Verifiers == {"v1", "v2"}
StatusInputs == {"pending", "expired"}
None == -1

\* scope.split(): the space-separated string as a list
Split(scope) == IF scope = "" THEN << >> ELSE << scope >>

\* base64url_nopad(sha256(verifier)): an injective digest on the verifiers
S256(v) == IF v = "v1" THEN "h1" ELSE IF v = "v2" THEN "h2" ELSE "h0"

\* the absent token (Python None)
NoneTok == [typ |-> "None"]

IsToken(t) == t.typ \in {"delegation", "access"}

\* jwt.encode(claims, secret, algorithm="HS256")
JwtEncode(typ, sub, other, scope, iat, exp, jti, did, cc, ccm) ==
    [typ |-> typ, alg |-> "HS256", sig |-> "ok",
     sub |-> sub, other |-> other, scope |-> scope,
     iat |-> iat, exp |-> exp, jti |-> jti, delegation_id |-> did,
     code_challenge |-> cc, code_challenge_method |-> ccm]

\* attacker-made variants of a token: a wrong signature, algorithm none,
\* and another HMAC algorithm with a signature that verifies under it
Forge(t) == [t EXCEPT !.sig = "bad"]
AlgNone(t) == [t EXCEPT !.alg = "none", !.sig = "bad"]
AlgOther(t) == [t EXCEPT !.alg = "HS384"]

\* jwt.decode(token, secret, algorithms=["HS256"]) at time t
JwtDecode_anyalg(tok, t) ==
    IF ~IsToken(tok) THEN "invalid"
    ELSE IF tok.sig # "ok" THEN "invalid"
    ELSE IF tok.exp <= t THEN "expired"
    ELSE "ok"

JwtDecode(tok, t) ==
    IF ~IsToken(tok) THEN "invalid"
    ELSE IF tok.alg # "HS256" THEN "invalid"
    ELSE IF tok.sig # "ok" THEN "invalid"
    ELSE IF tok.exp <= t THEN "expired"
    ELSE "ok"

\* ------------------------------------------------------------------ state
VARIABLES
    agents,             \* StorageManager._agents: id -> Agent
    users,              \* StorageManager._users: set of usernames
    delegations,        \* StorageManager._delegations, in creation order
    active_tokens,      \* StorageManager._active_tokens (list)
    revoked_tokens,     \* StorageManager._revoked_tokens (set)
    system_activities,  \* StorageManager._system_activities (list)
    disk,               \* the files written by the _save_* methods
    now,                \* datetime.utcnow()
    uuid_count,         \* number of uuid4 values drawn for access-token jti
    lock,               \* StorageManager._lock: the call holding it, or free
    pc,                 \* position and local variables of each request handler
    last,               \* the call made by the last step and its outcome
    issued,             \* every token handed out so far
    minted,             \* access tokens returned by POST /token, in order
    revoke_ok,          \* tokens for which POST /revoke answered 200
    revoke_calls,       \* number of POST /revoke requests so far
    delete_approved,    \* delegations approved when their agent's delete began
    delete_tokens,      \* access tokens held for an agent when its delete began
    keycloak_url,       \* config.keycloak_url ("" when not set)
    redirects,          \* authorization flows sent to the identity provider
    bound,              \* GET /callback tokens of flows begun with a challenge
    writable,           \* whether open(file, 'w') and json.dump succeed
    introspected,       \* whether the last GET /data posted to /introspect
    returned,           \* the list returned by the last get_activities / get_logs
    SYSTEM_LOGS,        \* api_server.SYSTEM_LOGS (list)
    log_calls,          \* number of direct log_activity calls so far
    AGENTS,             \* api_server.AGENTS: id -> Agent
    USERS,              \* api_server.USERS: set of usernames
    DELEGATIONS,        \* api_server.DELEGATIONS, in creation order
    REVOKED_TOKENS      \* api_server.REVOKED_TOKENS (set)

vars == << agents, users, delegations, active_tokens, revoked_tokens,
           system_activities, disk, now, uuid_count, lock, pc, last,
           issued, minted, revoke_ok, revoke_calls, delete_approved,
           delete_tokens, keycloak_url, redirects, bound, writable,
           introspected, returned, SYSTEM_LOGS, log_calls, AGENTS, USERS,
           DELEGATIONS, REVOKED_TOKENS >>

storeVars == << agents, users, delegations, active_tokens, revoked_tokens,
                system_activities, disk >>
histVars == << issued, minted, revoke_ok, revoke_calls, delete_approved,
              delete_tokens >>
threadVars == << pc >>
idpVars == << keycloak_url, redirects, bound >>
apiVars == << AGENTS, USERS, DELEGATIONS, REVOKED_TOKENS >>
sideVars == << writable, introspected, returned, SYSTEM_LOGS, log_calls, apiVars >>
logVars == << SYSTEM_LOGS, log_calls >>

Free == [op |-> "free"]
Idle == [op |-> "idle"]

\* ------------------------------------------------------------------ Agent
NewAgent(name, scopes) ==
    [name |-> name, scopes |-> scopes, status |-> "active",
     last_used |-> None, delegation_count |-> 0]

\* Agent.increment_delegation_count (with update_last_used)
increment_delegation_count(agent, t) ==
    [agent EXCEPT !.delegation_count = @ + 1, !.last_used = t]

\* ------------------------------------------------------------------ Delegation
\* Delegation.from_dict / __post_init__ for a new request; status is the
\* "status" entry of the request data (default pending)
NewDelegation(id, agent_id, user_id, scopes, status, t) ==
    [id |-> id, agent_id |-> agent_id, user_id |-> user_id, scopes |-> scopes,
     status |-> status, created_at |-> t, approved_at |-> None,
     expires_at |-> t + delegation_token_expiry,
     delegation_token |-> NoneTok, access_token |-> NoneTok,
     revoked_at |-> None]

\* Delegation.approve: [raised, self, ret]
approve_notoken(self, t) ==
    IF self.status # "pending"
    THEN [raised |-> TRUE, self |-> self, ret |-> NoneTok]
    ELSE [raised |-> FALSE,
          self |-> [self EXCEPT !.status = "approved", !.approved_at = t],
          ret |-> JwtEncode("delegation", self.agent_id, self.user_id, self.scopes,
                            t, t + delegation_token_expiry, << "del", self.id >>,
                            self.id, "", "")]

approve_nocheck(self, t) ==
    LET tok == JwtEncode("delegation", self.agent_id, self.user_id, self.scopes,
                         t, t + delegation_token_expiry, << "del", self.id >>,
                         self.id, "", "")
    IN [raised |-> FALSE,
        self |-> [self EXCEPT !.status = "approved", !.approved_at = t,
                              !.delegation_token = tok],
        ret |-> tok]

approve(self, t) ==
    IF self.status # "pending"
    THEN [raised |-> TRUE, self |-> self, ret |-> NoneTok]
    ELSE LET tok == JwtEncode("delegation", self.agent_id, self.user_id,
                              self.scopes, t, t + delegation_token_expiry,
                              << "del", self.id >>, self.id, "", "")
         IN [raised |-> FALSE,
             self |-> [self EXCEPT !.status = "approved", !.approved_at = t,
                                   !.delegation_token = tok],
             ret |-> tok]

\* Delegation.deny
deny(self) ==
    IF self.status # "pending"
    THEN [raised |-> TRUE, self |-> self]
    ELSE [raised |-> FALSE, self |-> [self EXCEPT !.status = "denied"]]

\* Delegation.revoke
revoke_nocheck(self, t) ==
    [raised |-> FALSE,
     self |-> [self EXCEPT !.status = "revoked", !.revoked_at = t]]

revoke(self, t) ==
    IF self.status \notin {"approved", "pending"}
    THEN [raised |-> TRUE, self |-> self]
    ELSE [raised |-> FALSE,
          self |-> [self EXCEPT !.status = "revoked", !.revoked_at = t]]

\* Delegation.is_expired / is_active
is_expired(self, t) == t > self.expires_at
is_active(self, t) == self.status = "approved" /\ ~is_expired(self, t)

\* Delegation.generate_access_token; k is the fresh uuid of the jti
generate_access_token(self, t, k) ==
    IF ~is_active(self, t)
    THEN [raised |-> TRUE, self |-> self, ret |-> NoneTok]
    ELSE LET tok == JwtEncode("access", self.user_id, self.agent_id, self.scopes,
                              t, t + access_token_expiry, << "acc", k >>,
                              self.id, "", "")
         IN [raised |-> FALSE, self |-> [self EXCEPT !.access_token = tok],
             ret |-> tok]

\* ------------------------------------------------------------------ store helpers
\* the _save_* methods: the file is rewritten, or the exception of a failed
\* write is caught and logged and the file keeps its content
Save(new) == IF writable THEN new ELSE disk

ActivityLimit == 1000

\* StorageManager.log_activity (append, keep the last 1000, save)
log_activity_keepfirst(log, action, ref) ==
    LET l == Append(log, [action |-> action, ref |-> ref])
    IN IF Len(l) > ActivityLimit THEN SubSeq(l, 1, ActivityLimit) ELSE l

log_activity(log, action, ref) ==
    LET l == Append(log, [action |-> action, ref |-> ref])
    IN IF Len(l) > ActivityLimit
       THEN SubSeq(l, Len(l) - ActivityLimit + 1, Len(l))
       ELSE l

\* api_server.log_activity (append, pop(0) beyond 1000 entries)
api_log_activity(logs, entry) ==
    LET l == Append(logs, entry)
    IN IF Len(l) > ActivityLimit THEN Tail(l) ELSE l

\* Python's s[start:] for any integer start
SliceFrom(s, start) ==
    LET n == Len(s)
        i == IF start < 0
             THEN (IF n + start < 0 THEN 0 ELSE n + start)
             ELSE (IF start > n THEN n ELSE start)
    IN SubSeq(s, i + 1, n)

GetLimit == 100

\* StorageManager.get_activities; api_server.get_logs computes the same
\* expression over SYSTEM_LOGS
get_activities(log, limit) ==
    LET lim == IF limit < GetLimit THEN limit ELSE GetLimit
    IN IF log # << >> THEN SliceFrom(log, 0 - lim) ELSE << >>

\* StorageManager.is_token_revoked
is_token_revoked_never(rev, token) == FALSE

is_token_revoked(rev, token) == token \in rev

\* StorageManager.revoke_token: the update of the revocation set
revoke_token_all(rev, token) == rev \cup {token} \cup issued

revoke_token_replace(rev, token) == {token}

revoke_token(rev, token) == rev \cup {token}

\* TokenInfo.from_token(token, revoked).is_valid at time t
is_valid(token, rev, t) == JwtDecode(token, t) = "ok" /\ token \notin rev

\* StorageManager.get_active_tokens at time t
get_active_tokens(act, rev, t) ==
    SelectSeq(act, LAMBDA tk : tk \notin rev /\ is_valid(tk, rev, t))

\* StorageManager.add_active_token: the new list
add_active_token(act, token) ==
    IF \E i \in 1..Len(act) : act[i] = token THEN act ELSE Append(act, token)

Exists(d) == d \in 1..Len(delegations)

\* auth_server.introspect: the JSON answer for a token
introspect(token) ==
    IF JwtDecode(token, now) = "ok"
    THEN IF is_token_revoked(revoked_tokens, token)
         THEN [active |-> FALSE]
         ELSE [active |-> TRUE, sub |-> token.sub, scope |-> token.scope]
    ELSE [active |-> FALSE]

\* resource_server.data for "Authorization: Bearer <token>"; answered tells
\* whether the introspection request to the authorization server came back
data(token, answered) ==
    IF ~answered THEN 503
    ELSE IF ~introspect(token).active THEN 403
    ELSE 200

\* an Authorization header: absent, or the text scheme [" "] credentials,
\* where credentials are whitespace-separated words
NoHeader == [present |-> FALSE, scheme |-> "", space |-> FALSE, credentials |-> << >>]
Header(scheme, space, credentials) ==
    [present |-> TRUE, scheme |-> scheme, space |-> space, credentials |-> credentials]

\* not auth: the header is absent or the empty string
Falsy(auth) ==
    ~auth.present \/ (auth.scheme = "" /\ ~auth.space /\ auth.credentials = << >>)

\* auth.startswith("Bearer ")
StartsWithBearer(auth) == auth.scheme = "Bearer" /\ auth.space

\* auth.split(): the words of the header
split(auth) == (IF auth.scheme = "" THEN << >> ELSE << auth.scheme >>) \o auth.credentials

StatusOf(code) ==
    CASE code = 200 -> "200" [] code = 403 -> "403" [] code = 503 -> "503"

\* resource_server.data for any request: the status answered and whether
\* the token was posted to /introspect; auth.split()[1] raises IndexError
\* when the header has one word, which the outer handler answers with 500
data_request(auth, answered) ==
    IF Falsy(auth) \/ ~StartsWithBearer(auth)
    THEN [status |-> "401", introspected |-> FALSE]
    ELSE IF Len(split(auth)) < 2
         THEN [status |-> "500", introspected |-> FALSE]
         ELSE [status |-> StatusOf(data(split(auth)[2], answered)),
               introspected |-> TRUE]

\* ------------------------------------------------------------------ Init
\* the state after start-up with the given activities file, and the
\* api_server log as given
BootLog(url, log, logs) ==
    /\ agents = (DefaultAgent :> NewAgent("CalendarAgent", << "read:calendar", "write:calendar" >>))
    /\ users = {"alice"}
    /\ delegations = << >>
    /\ active_tokens = << >>
    /\ revoked_tokens = {}
    /\ system_activities = log
    /\ disk = [agents |-> (DefaultAgent :> NewAgent("CalendarAgent", << "read:calendar", "write:calendar" >>)),
               users |-> {"alice"},
               delegations |-> << >>,
               tokens |-> [active_tokens |-> << >>, revoked_tokens |-> {}],
               activities |-> log]
    /\ now = 0
    /\ uuid_count = 0
    /\ lock = Free
    /\ pc = [th \in Threads |-> Idle]
    /\ last = [op |-> "init", arg |-> None, res |-> "ok"]
    /\ issued = {}
    /\ minted = << >>
    /\ revoke_ok = {}
    /\ revoke_calls = 0
    /\ delete_approved = {}
    /\ delete_tokens = {}
    /\ keycloak_url = url
    /\ redirects = {}
    /\ bound = {}
    /\ writable = TRUE
    /\ introspected = FALSE
    /\ returned = << >>
    /\ SYSTEM_LOGS = logs
    /\ log_calls = 0
    /\ AGENTS = (DefaultAgent :> NewAgent("CalendarAgent", << "read:calendar", "write:calendar" >>))
    /\ USERS = {"alice"}
    /\ DELEGATIONS = << >>
    /\ REVOKED_TOKENS = {}

\* the state after construction with no activities file
Boot(url) == BootLog(url, << >>, << >>)

\* the identity provider is not configured
Init == Boot("")

Result(op, arg, res) == last' = [op |-> op, arg |-> arg, res |-> res]

\* ------------------------------------------------------------------ clock
Tick ==
    /\ now < MaxTime
    /\ now' = now + 1
    /\ Result("tick", None, "ok")
    /\ UNCHANGED << storeVars, uuid_count, lock, threadVars, histVars >>
    /\ UNCHANGED << idpVars, sideVars >>

\* ------------------------------------------------------------------ store: delegations
\* StorageManager.create_delegation
CreateDelegation(a, u, sc, st) ==
    /\ lock = Free
    /\ Len(delegations) < MaxDelegations
    /\ IF a \notin DOMAIN agents \/ u \notin users
       THEN /\ Result("create_delegation", a, "ValueError")
            /\ UNCHANGED storeVars
       ELSE LET id == Len(delegations) + 1
                ds == Append(delegations, NewDelegation(id, a, u, Split(sc), st, now))
                log == log_activity(system_activities, "delegation_created", id)
            IN /\ delegations' = ds
               /\ system_activities' = log
               /\ disk' = Save([disk EXCEPT !.delegations = ds, !.activities = log])
               /\ Result("create_delegation", a, "created")
               /\ UNCHANGED << agents, users, active_tokens, revoked_tokens >>
    /\ UNCHANGED << now, uuid_count, lock, threadVars, histVars >>
    /\ UNCHANGED << idpVars, sideVars >>

\* StorageManager.approve_delegation
ApproveDelegation(d) ==
    /\ lock = Free
    /\ IF ~Exists(d)
       THEN /\ Result("approve_delegation", d, "ValueError")
            /\ UNCHANGED << storeVars, issued >>
       ELSE LET r == approve(delegations[d], now)
                a == delegations[d].agent_id
                ds == [delegations EXCEPT ![d] = r.self]
                ags == IF a \in DOMAIN agents
                       THEN [agents EXCEPT ![a] = increment_delegation_count(@, now)]
                       ELSE agents
                log == log_activity(system_activities, "delegation_approved", d)
            IN IF r.raised
               THEN /\ Result("approve_delegation", d, "ValueError")
                    /\ UNCHANGED << storeVars, issued >>
               ELSE /\ delegations' = ds
                    /\ agents' = ags
                    /\ system_activities' = log
                    /\ disk' = Save([disk EXCEPT !.agents = IF a \in DOMAIN agents THEN ags ELSE @,
                                            !.delegations = ds, !.activities = log])
                    /\ issued' = issued \cup {r.ret}
                    /\ Result("approve_delegation", d, "token")
                    /\ UNCHANGED << users, active_tokens, revoked_tokens >>
    /\ UNCHANGED << now, uuid_count, lock, threadVars, minted, revoke_ok,
                    revoke_calls, delete_approved, delete_tokens >>
    /\ UNCHANGED << idpVars, sideVars >>

\* StorageManager.deny_delegation
DenyDelegation(d) ==
    /\ lock = Free
    /\ IF ~Exists(d)
       THEN /\ Result("deny_delegation", d, "False")
            /\ UNCHANGED storeVars
       ELSE LET r == deny(delegations[d])
                ds == [delegations EXCEPT ![d] = r.self]
                log == log_activity(system_activities, "delegation_denied", d)
            IN IF r.raised
               THEN /\ Result("deny_delegation", d, "ValueError")
                    /\ UNCHANGED storeVars
               ELSE /\ delegations' = ds
                    /\ system_activities' = log
                    /\ disk' = Save([disk EXCEPT !.delegations = ds, !.activities = log])
                    /\ Result("deny_delegation", d, "True")
                    /\ UNCHANGED << agents, users, active_tokens, revoked_tokens >>
    /\ UNCHANGED << now, uuid_count, lock, threadVars, histVars >>
    /\ UNCHANGED << idpVars, sideVars >>

\* the tokens a delegation records (delegation_token, access_token when set)
RecordedTokens(self) ==
    {tk \in {self.delegation_token, self.access_token} : tk # NoneTok}

\* StorageManager.revoke_delegation
RevokeDelegation(d) ==
    /\ lock = Free
    /\ IF ~Exists(d)
       THEN /\ Result("revoke_delegation", d, "False")
            /\ UNCHANGED storeVars
       ELSE LET rev == revoked_tokens \cup RecordedTokens(delegations[d])
                r == revoke(delegations[d], now)
                ds == [delegations EXCEPT ![d] = r.self]
                log == log_activity(system_activities, "delegation_revoked", d)
            IN IF r.raised
               THEN /\ revoked_tokens' = rev
                    /\ Result("revoke_delegation", d, "ValueError")
                    /\ UNCHANGED << agents, users, delegations, active_tokens,
                                    system_activities, disk >>
               ELSE /\ revoked_tokens' = rev
                    /\ delegations' = ds
                    /\ system_activities' = log
                    /\ disk' = Save([disk EXCEPT !.delegations = ds,
                                            !.tokens = [active_tokens |-> active_tokens,
                                                        revoked_tokens |-> rev],
                                            !.activities = log])
                    /\ Result("revoke_delegation", d, "True")
                    /\ UNCHANGED << agents, users, active_tokens >>
    /\ UNCHANGED << now, uuid_count, lock, threadVars, histVars >>
    /\ UNCHANGED << idpVars, sideVars >>

\* Delegation.generate_access_token on a delegation held by the store
GenerateAccessToken(d) ==
    /\ Exists(d)
    /\ uuid_count < MaxGenerated
    /\ LET r == generate_access_token(delegations[d], now, uuid_count + 1)
       IN IF r.raised
          THEN /\ Result("generate_access_token", d, "ValueError")
               /\ UNCHANGED << delegations, uuid_count, issued >>
          ELSE /\ delegations' = [delegations EXCEPT ![d] = r.self]
               /\ uuid_count' = uuid_count + 1
               /\ issued' = issued \cup {r.ret}
               /\ Result("generate_access_token", d, "token")
    /\ UNCHANGED << agents, users, active_tokens, revoked_tokens,
                    system_activities, disk, now, lock, threadVars, minted,
                    revoke_ok, revoke_calls, delete_approved, delete_tokens >>
    /\ UNCHANGED << idpVars, sideVars >>

\* ------------------------------------------------------------------ store: agents
ApprovedOf(a) ==
    {d \in 1..Len(delegations) :
        delegations[d].agent_id = a /\ delegations[d].status = "approved"}

Without(f, k) == [x \in DOMAIN f \ {k} |-> f[x]]

\* StorageManager.delete_agent, lines 295-301: take the lock, remove the
\* agent record and save the agents file
DeleteAgentRemove(a) ==
    /\ lock = Free
    /\ IF a \notin DOMAIN agents
       THEN /\ Result("delete_agent", a, "False")
            /\ UNCHANGED << storeVars, lock, delete_approved, delete_tokens >>
       ELSE /\ agents' = Without(agents, a)
            /\ disk' = Save([disk EXCEPT !.agents = Without(agents, a)])
            /\ lock' = [op |-> "delete_agent", agent_id |-> a]
            /\ delete_approved' = delete_approved \cup ApprovedOf(a)
            /\ delete_tokens' = delete_tokens \cup
                   {t \in issued : t.typ = "access" /\ t.other = a}
            /\ Result("delete_agent", a, "removed")
            /\ UNCHANGED << users, delegations, active_tokens, revoked_tokens,
                            system_activities >>
    /\ UNCHANGED << now, uuid_count, threadVars, issued, minted, revoke_ok,
                    revoke_calls >>
    /\ UNCHANGED << idpVars, sideVars >>

\* StorageManager.delete_agent, lines 303-315: revoke the agent's approved
\* delegations, save the delegations file, log, release the lock
DeleteAgentCascade ==
    /\ lock.op = "delete_agent"
    /\ LET a == lock.agent_id
           ds == [d \in 1..Len(delegations) |->
                    IF delegations[d].agent_id = a /\ delegations[d].status = "approved"
                    THEN revoke(delegations[d], now).self
                    ELSE delegations[d]]
           log == log_activity(system_activities, "agent_deleted", a)
       IN /\ delegations' = ds
          /\ system_activities' = log
          /\ disk' = Save([disk EXCEPT !.delegations = ds, !.activities = log])
          /\ Result("delete_agent", a, "True")
    /\ lock' = Free
    /\ UNCHANGED << agents, users, active_tokens, revoked_tokens, now,
                    uuid_count, threadVars, histVars >>
    /\ UNCHANGED << idpVars, sideVars >>

\* StorageManager.create_agent: [raised, agents]
create_agent_overwrite(ags, id, name, scopes) ==
    [raised |-> FALSE,
     agents |-> [x \in DOMAIN ags \cup {id} |->
                   IF x = id THEN NewAgent(name, scopes) ELSE ags[x]]]

create_agent(ags, id, name, scopes) ==
    IF id \in DOMAIN ags
    THEN [raised |-> TRUE, agents |-> ags]
    ELSE [raised |-> FALSE,
          agents |-> [x \in DOMAIN ags \cup {id} |->
                        IF x = id THEN NewAgent(name, scopes) ELSE ags[x]]]

UpdateInputs == {[status |-> "suspended"], [status |-> "inactive"], [status |-> "active"]}

Updates(log) == {i \in 1..Len(log) : log[i].action = "agent_updated"}

\* StorageManager.update_agent: setattr for every field of updates that the
\* agent has, except id
UpdateAgent(a, updates) ==
    /\ lock = Free
    /\ Cardinality(Updates(system_activities)) < MaxUpdates
    /\ IF a \notin DOMAIN agents
       THEN /\ Result("update_agent", a, "ValueError")
            /\ UNCHANGED storeVars
       ELSE LET agent == [f \in DOMAIN agents[a] |->
                            IF f \in DOMAIN updates /\ f # "id"
                            THEN updates[f] ELSE agents[a][f]]
                ags == [agents EXCEPT ![a] = agent]
                log == log_activity(system_activities, "agent_updated", a)
            IN /\ agents' = ags
               /\ system_activities' = log
               /\ disk' = Save([disk EXCEPT !.agents = ags, !.activities = log])
               /\ Result("update_agent", a, "updated")
               /\ UNCHANGED << users, delegations, active_tokens, revoked_tokens >>
    /\ UNCHANGED << now, uuid_count, lock, threadVars, histVars, idpVars, sideVars >>

\* ------------------------------------------------------------------ authorization server
NameInputs == {"A"}
PkceInputs == {<< "", "plain" >>, << "h1", "S256" >>, << "v1", "plain" >>}
VerifierInputs == {"", "v1", "v2"}

\* query strings of GET /authorize: scope, code_challenge, code_challenge_method
AuthorizeInputs ==
    {<< sc, pk[1], pk[2] >> : sc \in ScopeInputs, pk \in PkceInputs}
        \cup {<< "", "", "plain" >>}

\* POST /register, lines 38-68: validation and the get_agent lookup
RegisterLookup(th, client_id, name) ==
    /\ pc[th] = Idle
    /\ lock = Free
    /\ IF client_id \in DOMAIN agents
       THEN /\ Result("register", client_id, "409")
            /\ UNCHANGED pc
       ELSE /\ pc' = [pc EXCEPT ![th] = [op |-> "register", client_id |-> client_id,
                                         name |-> name]]
            /\ Result("register", client_id, "lookup")
    /\ UNCHANGED << storeVars, now, uuid_count, lock, histVars >>
    /\ UNCHANGED << idpVars, sideVars >>

\* POST /register, lines 70-101: create_agent and the answer
RegisterCreate(th) ==
    /\ pc[th].op = "register"
    /\ lock = Free
    /\ LET id == pc[th].client_id
           r == create_agent(agents, id, pc[th].name, << >>)
           log == log_activity(system_activities, "agent_created", id)
       IN IF r.raised
          THEN /\ Result("register", id, "400")
               /\ UNCHANGED storeVars
          ELSE /\ agents' = r.agents
               /\ system_activities' = log
               /\ disk' = Save([disk EXCEPT !.agents = r.agents, !.activities = log])
               /\ Result("register", id, "201")
               /\ UNCHANGED << users, delegations, active_tokens, revoked_tokens >>
    /\ pc' = [pc EXCEPT ![th] = Idle]
    /\ UNCHANGED << now, uuid_count, lock, histVars >>
    /\ UNCHANGED << idpVars, sideVars >>

\* POST /register_user (get_user, then StorageManager.create_user)
RegisterUser(username) ==
    /\ lock = Free
    /\ IF username \in users
       THEN /\ Result("register_user", username, "409")
            /\ UNCHANGED storeVars
       ELSE LET log == log_activity(system_activities, "user_created", username)
            IN /\ users' = users \cup {username}
               /\ system_activities' = log
               /\ disk' = Save([disk EXCEPT !.users = users \cup {username},
                                       !.activities = log])
               /\ Result("register_user", username, "201")
               /\ UNCHANGED << agents, delegations, active_tokens, revoked_tokens >>
    /\ UNCHANGED << now, uuid_count, lock, threadVars, histVars >>
    /\ UNCHANGED << idpVars, sideVars >>

DelegationTokens(s) == {tk \in s : tk.typ = "delegation"}

\* StorageManager.get_user as the handlers use it: the user is known
get_user_any(usrs, username) == TRUE

get_user(usrs, username) == username \in usrs

\* GET /authorize: the agent lookup, the redirect to the identity provider
\* when one is configured (state = client_id|scope), else the user lookup
\* and the delegation token
Authorize(client_id, user, scope, cc, ccm) ==
    /\ lock = Free
    /\ IF client_id \notin DOMAIN agents
       THEN /\ Result("authorize", << client_id, user >>, "403")
            /\ UNCHANGED << issued, redirects >>
       ELSE IF keycloak_url # ""
       THEN LET r == [state |-> << client_id, scope >>,
                      code_challenge |-> cc, code_challenge_method |-> ccm]
            IN /\ r \in redirects \/ Cardinality(redirects) < MaxRedirects
               /\ redirects' = redirects \cup {r}
               /\ Result("authorize", << client_id, user >>, "302")
               /\ UNCHANGED issued
       ELSE IF ~get_user(users, user)
       THEN /\ Result("authorize", << client_id, user >>, "403")
            /\ UNCHANGED << issued, redirects >>
       ELSE LET tok == JwtEncode("delegation", client_id, user, Split(scope),
                                 now, now + delegation_token_expiry, << >>, 0,
                                 cc, ccm)
            IN /\ tok \in issued \/ Cardinality(DelegationTokens(issued)) < MaxIssued
               /\ issued' = issued \cup {tok}
               /\ Result("authorize", << client_id, user >>, "200")
               /\ UNCHANGED redirects
    /\ UNCHANGED << storeVars, now, uuid_count, lock, threadVars, minted,
                    revoke_ok, revoke_calls, delete_approved, delete_tokens,
                    keycloak_url, bound, sideVars >>

\* GET /callback for the flow r; code is the code query parameter, idp_ok
\* whether the identity provider's token endpoint accepts it, idp_sub the
\* sub claim of the id_token it returns
Callback(r, code, idp_ok, idp_sub) ==
    /\ lock = Free
    /\ IF keycloak_url = ""
       THEN /\ Result("callback", r.state, "404")
            /\ UNCHANGED << issued, redirects, bound >>
       ELSE IF code = ""
       THEN /\ Result("callback", r.state, "400")
            /\ UNCHANGED << issued, redirects, bound >>
       ELSE IF r.state[1] \notin DOMAIN agents
       THEN /\ Result("callback", r.state, "403")
            /\ UNCHANGED << issued, redirects, bound >>
       ELSE IF ~idp_ok
       THEN /\ Result("callback", r.state, "500")
            /\ UNCHANGED << issued, redirects, bound >>
       ELSE LET tok == JwtEncode("delegation", r.state[1], idp_sub,
                                 Split(r.state[2]), now,
                                 now + delegation_token_expiry, << >>, 0, "", "")
            IN /\ tok \in issued \/ Cardinality(DelegationTokens(issued)) < MaxIssued
               /\ issued' = issued \cup {tok}
               /\ redirects' = redirects \ {r}
               /\ bound' = IF r.code_challenge # ""
                           THEN bound \cup {[token |-> tok,
                                             code_challenge |-> r.code_challenge,
                                             code_challenge_method |-> r.code_challenge_method]}
                           ELSE bound
               /\ Result("callback", r.state, "200")
    /\ UNCHANGED << storeVars, now, uuid_count, lock, threadVars, minted,
                    revoke_ok, revoke_calls, delete_approved, delete_tokens,
                    keycloak_url, sideVars >>

\* POST /token, line 261: a challenge is recorded and no verifier came
VerifierMissing_never(challenge, code_verifier) == FALSE

VerifierMissing(challenge, code_verifier) == challenge # "" /\ code_verifier = ""

\* POST /token, lines 264-271: the verifier against the challenge
VerifierMatches_plain(challenge, method, code_verifier) == code_verifier = challenge

VerifierMatches(challenge, method, code_verifier) ==
    IF method = "S256"
    THEN S256(code_verifier) = challenge
    ELSE code_verifier = challenge

\* the PKCE check of POST /token, lines 258-271: TRUE when it lets the
\* request through
PkcePasses(challenge, method, code_verifier) ==
    IF VerifierMissing(challenge, code_verifier) THEN FALSE
    ELSE IF challenge # "" /\ code_verifier # ""
    THEN VerifierMatches(challenge, method, code_verifier)
    ELSE TRUE

\* POST /token, lines 246-274: decode, revocation check, PKCE check, and
\* the count of active tokens for the jti
TokenCheck(th, token_str, code_verifier) ==
    /\ pc[th] = Idle
    /\ lock = Free
    /\ Len(minted) < MaxMinted
    /\ LET dec == JwtDecode(token_str, now)
           req == [token |-> token_str, code_verifier |-> code_verifier]
       IN IF dec = "expired"
          THEN Result("token", req, "403 expired") /\ UNCHANGED pc
          ELSE IF dec = "invalid"
          THEN Result("token", req, "403 invalid") /\ UNCHANGED pc
          ELSE IF is_token_revoked(revoked_tokens, token_str)
          THEN Result("token", req, "403 revoked") /\ UNCHANGED pc
          ELSE IF ~PkcePasses(token_str.code_challenge,
                              token_str.code_challenge_method, code_verifier)
          THEN Result("token", req, "403 verifier") /\ UNCHANGED pc
          ELSE IF token_str.typ # "delegation"
          THEN Result("token", req, "500") /\ UNCHANGED pc
          ELSE /\ pc' = [pc EXCEPT ![th] =
                           [op |-> "token", delegation |-> token_str,
                            code_verifier |-> code_verifier,
                            n |-> Len(get_active_tokens(active_tokens,
                                                        revoked_tokens, now))]]
               /\ Result("token", req, "checked")
    /\ UNCHANGED << storeVars, now, uuid_count, lock, histVars >>
    /\ UNCHANGED << idpVars, sideVars >>

\* the access token POST /token builds, lines 275-284
AccessClaim_swapped(delegation, n, t) ==
    JwtEncode("access", delegation.sub, delegation.other, delegation.scope,
              t, t + access_token_expiry, << "token", n + 1 >>, 0, "", "")

AccessClaim(delegation, n, t) ==
    JwtEncode("access", delegation.other, delegation.sub, delegation.scope,
              t, t + access_token_expiry, << "token", n + 1 >>, 0, "", "")

\* POST /token, lines 275-289: mint, add_active_token, answer
TokenMint(th) ==
    /\ pc[th].op = "token"
    /\ lock = Free
    /\ LET access_token == AccessClaim(pc[th].delegation, pc[th].n, now)
           act == add_active_token(active_tokens, access_token)
       IN /\ active_tokens' = act
          /\ disk' = IF act = active_tokens THEN disk
                     ELSE Save([disk EXCEPT !.tokens = [active_tokens |-> act,
                                                   revoked_tokens |-> revoked_tokens]])
          /\ minted' = Append(minted, access_token)
          /\ issued' = issued \cup {access_token}
          /\ Result("token", [token |-> pc[th].delegation,
                              code_verifier |-> pc[th].code_verifier], "200")
    /\ pc' = [pc EXCEPT ![th] = Idle]
    /\ UNCHANGED << agents, users, delegations, revoked_tokens,
                    system_activities, now, uuid_count, lock, revoke_ok,
                    revoke_calls, delete_approved, delete_tokens >>
    /\ UNCHANGED << idpVars, sideVars >>

\* POST /revoke (StorageManager.revoke_token); with no token field the
\* activity preview token[:20] raises after the set was updated and saved
Revoke(token) ==
    /\ lock = Free
    /\ revoke_calls < MaxRevokeCalls
    /\ revoke_calls' = revoke_calls + 1
    /\ LET rev == revoke_token(revoked_tokens, token)
           log == log_activity(system_activities, "token_revoked", None)
       IN /\ revoked_tokens' = rev
          /\ IF token = NoneTok
             THEN /\ disk' = Save([disk EXCEPT !.tokens = [active_tokens |-> active_tokens,
                                                      revoked_tokens |-> rev]])
                  /\ Result("revoke", None, "500")
                  /\ UNCHANGED << system_activities, revoke_ok >>
             ELSE /\ system_activities' = log
                  /\ disk' = Save([disk EXCEPT !.tokens = [active_tokens |-> active_tokens,
                                                      revoked_tokens |-> rev],
                                          !.activities = log])
                  /\ revoke_ok' = revoke_ok \cup {token}
                  /\ Result("revoke", None, "200")
    /\ UNCHANGED << agents, users, delegations, active_tokens, now, uuid_count,
                    lock, threadVars, issued, minted, delete_approved, delete_tokens >>
    /\ UNCHANGED << idpVars, sideVars >>

\* the tokens a client can present: those handed out and forgeries of them
Presentable ==
    issued \cup {Forge(t) : t \in issued} \cup {AlgNone(t) : t \in issued}
           \cup {AlgOther(t) : t \in issued}

NextAuth ==
    \/ Tick
    \/ \E a \in AgentIds, u \in UserIds, q \in AuthorizeInputs :
          Authorize(a, u, q[1], q[2], q[3])
    \/ \E th \in Threads, tk \in Presentable \cup {NoneTok}, v \in VerifierInputs :
          TokenCheck(th, tk, v)
    \/ \E th \in Threads : TokenMint(th)
    \/ \E tk \in issued \cup {NoneTok} : Revoke(tk)

SpecAuth == Init /\ [][NextAuth]_vars

\* ------------------------------------------------------------------ agents, users and issuance
NextAgents ==
    \/ \E th \in Threads, a \in AgentIds, n \in NameInputs : RegisterLookup(th, a, n)
    \/ \E th \in Threads : RegisterCreate(th)
    \/ \E a \in AgentIds, up \in UpdateInputs : UpdateAgent(a, up)
    \/ \E a \in AgentIds, u \in UserIds, q \in AuthorizeInputs :
          Authorize(a, u, q[1], q[2], q[3])
    \/ \E a \in AgentIds, u \in UserIds, sc \in ScopeInputs, st \in StatusInputs :
          CreateDelegation(a, u, sc, st)

SpecAgents == Init /\ [][NextAgents]_vars

\* ------------------------------------------------------------------ resource server
DPoPInputs == {"", "proof"}

HeaderInputs ==
    {NoHeader, Header("", FALSE, << >>), Header("Bearer", FALSE, << >>),
     Header("Bearer", TRUE, << >>)}
        \cup {Header(sch, TRUE, << t >>) : sch \in {"Bearer", "Basic"}, t \in issued}

\* GET /data with the given Authorization and DPoP headers; the DPoP header
\* is never read by the handler
Data(auth, dpop, answered) ==
    /\ LET r == data_request(auth, answered)
       IN /\ Result("data", [header |-> auth, dpop |-> dpop, answered |-> answered],
                    r.status)
          /\ introspected' = r.introspected
    /\ UNCHANGED << storeVars, now, uuid_count, lock, threadVars, histVars,
                    idpVars, writable, returned, logVars, apiVars >>

NextResource ==
    \/ \E a \in AgentIds, u \in UserIds, q \in AuthorizeInputs :
          Authorize(a, u, q[1], q[2], q[3])
    \/ \E th \in Threads, tk \in issued, v \in VerifierInputs : TokenCheck(th, tk, v)
    \/ \E th \in Threads : TokenMint(th)
    \/ \E h \in HeaderInputs, p \in DPoPInputs, ok \in BOOLEAN : Data(h, p, ok)

SpecResource == Init /\ [][NextResource]_vars

\* ------------------------------------------------------------------ with an identity provider
InitIdp == Boot("http://keycloak")

NextIdp ==
    \/ Tick
    \/ \E a \in AgentIds, u \in UserIds, q \in AuthorizeInputs :
          Authorize(a, u, q[1], q[2], q[3])
    \/ \E r \in redirects, code \in {"", "code"}, ok \in BOOLEAN, u \in UserIds :
          Callback(r, code, ok, u)
    \/ \E th \in Threads, tk \in issued \cup {NoneTok}, v \in VerifierInputs :
          TokenCheck(th, tk, v)
    \/ \E th \in Threads : TokenMint(th)

SpecIdp == InitIdp /\ [][NextIdp]_vars

\* ------------------------------------------------------------------ persistence
AgentStatus == {"active", "inactive", "suspended"}
DelegationStatus == {"pending", "approved", "denied", "expired", "revoked"}

\* StorageManager._load_agents: Agent.from_dict of every entry of the file;
\* an entry whose __post_init__ raises is logged and skipped
load_agents(file) ==
    LET ok == {a \in DOMAIN file :
                  file[a].status \in AgentStatus /\ a # "" /\ file[a].name # ""}
    IN [a \in ok |-> file[a]]

\* StorageManager._load_delegations: Delegation.from_dict of every entry; an
\* entry whose __post_init__ raises is logged and skipped
load_delegations(file) ==
    SelectSeq(file, LAMBDA d : d.status \in DelegationStatus
                                  /\ d.agent_id # "" /\ d.user_id # "")

\* StorageManager._load_activities: the last 1000 entries of the file
load_activities(file) ==
    IF Len(file) > ActivityLimit
    THEN SubSeq(file, Len(file) - ActivityLimit + 1, Len(file))
    ELSE file

\* StorageManager.__init__ / _load_all_data over existing files
Load(files) ==
    [agents |-> load_agents(files.agents),
     users |-> files.users,
     delegations |-> load_delegations(files.delegations),
     active_tokens |-> files.tokens.active_tokens,
     revoked_tokens |-> files.tokens.revoked_tokens,
     system_activities |-> load_activities(files.activities)]

\* the process ends between requests and a new StorageManager is built
Restart ==
    /\ lock = Free
    /\ \A th \in Threads : pc[th] = Idle
    /\ LET m == Load(disk)
       IN /\ agents' = m.agents
          /\ users' = m.users
          /\ delegations' = m.delegations
          /\ active_tokens' = m.active_tokens
          /\ revoked_tokens' = m.revoked_tokens
          /\ system_activities' = m.system_activities
    /\ Result("restart", None, "ok")
    /\ UNCHANGED << disk, now, uuid_count, lock, threadVars, histVars, idpVars,
                    sideVars >>

\* from now on every open(file, 'w') raises (disk full, directory read-only)
DiskFault ==
    /\ writable
    /\ writable' = FALSE
    /\ Result("disk_fault", None, "ok")
    /\ UNCHANGED << storeVars, now, uuid_count, lock, threadVars, histVars,
                    idpVars, introspected, returned, logVars, apiVars >>

\* the store with a disk that can fail
NextDiskFault ==
    \/ \E a \in AgentIds, u \in UserIds, sc \in ScopeInputs, st \in StatusInputs :
          CreateDelegation(a, u, sc, st)
    \/ \E d \in 1..MaxDelegations : ApproveDelegation(d)
    \/ \E d \in 1..MaxDelegations : RevokeDelegation(d)
    \/ \E u \in UserIds : RegisterUser(u)
    \/ \E tk \in issued \cup {NoneTok} : Revoke(tk)
    \/ DiskFault

SpecDiskFault == Init /\ [][NextDiskFault]_vars

\* the store with restarts
NextRestart ==
    \/ \E a \in AgentIds, u \in UserIds, sc \in ScopeInputs, st \in StatusInputs :
          CreateDelegation(a, u, sc, st)
    \/ \E d \in 1..MaxDelegations : ApproveDelegation(d)
    \/ \E d \in 1..MaxDelegations : RevokeDelegation(d)
    \/ \E a \in AgentIds : DeleteAgentRemove(a)
    \/ DeleteAgentCascade
    \/ \E u \in UserIds : RegisterUser(u)
    \/ \E tk \in issued \cup {NoneTok} : Revoke(tk)
    \/ Restart

SpecRestart == Init /\ [][NextRestart]_vars

\* ------------------------------------------------------------------ compound operations, step by step
\* with self._lock: the value of the lock while thread th is inside
Locked_never(th) == Free

Locked(th) == [op |-> "held", by |-> th]

\* StorageManager.approve_delegation, lines 417-422: take the lock, look the
\* delegation up and call Delegation.approve
ApproveBegin(th, d) ==
    /\ pc[th] = Idle
    /\ lock = Free
    /\ IF ~Exists(d) \/ approve(delegations[IF Exists(d) THEN d ELSE 1], now).raised
       THEN /\ Result("approve_delegation", d, "ValueError")
            /\ UNCHANGED << delegations, lock, pc >>
       ELSE LET r == approve(delegations[d], now)
            IN /\ delegations' = [delegations EXCEPT ![d] = r.self]
               /\ lock' = Locked(th)
               /\ pc' = [pc EXCEPT ![th] = [op |-> "approve_delegation", d |-> d,
                                             ret |-> r.ret]]
               /\ Result("approve_delegation", d, "approved")
    /\ UNCHANGED << agents, users, active_tokens, revoked_tokens,
                    system_activities, disk, now, uuid_count, histVars,
                    idpVars, sideVars >>

\* StorageManager.approve_delegation, lines 424-439: count the approval on
\* the agent, save, log, release the lock and return the token
ApproveEnd(th) ==
    /\ pc[th].op = "approve_delegation"
    /\ LET d == pc[th].d
           a == delegations[d].agent_id
           ags == IF a \in DOMAIN agents
                  THEN [agents EXCEPT ![a] = increment_delegation_count(@, now)]
                  ELSE agents
           log == log_activity(system_activities, "delegation_approved", d)
       IN /\ agents' = ags
          /\ system_activities' = log
          /\ disk' = Save([disk EXCEPT !.agents = IF a \in DOMAIN agents THEN ags ELSE @,
                                       !.delegations = delegations,
                                       !.activities = log])
          /\ issued' = issued \cup {pc[th].ret}
          /\ Result("approve_delegation", d, "token")
    /\ lock' = Free
    /\ pc' = [pc EXCEPT ![th] = Idle]
    /\ UNCHANGED << users, delegations, active_tokens, revoked_tokens, now,
                    uuid_count, minted, revoke_ok, revoke_calls,
                    delete_approved, delete_tokens, idpVars, sideVars >>

\* StorageManager.revoke_delegation, lines 463-473: take the lock, look the
\* delegation up and add its recorded tokens to the revocation set
RevokeBegin(th, d) ==
    /\ pc[th] = Idle
    /\ lock = Free
    /\ IF ~Exists(d)
       THEN /\ Result("revoke_delegation", d, "False")
            /\ UNCHANGED << revoked_tokens, lock, pc >>
       ELSE /\ revoked_tokens' = revoked_tokens \cup RecordedTokens(delegations[d])
            /\ lock' = Locked(th)
            /\ pc' = [pc EXCEPT ![th] = [op |-> "revoke_delegation", d |-> d]]
            /\ Result("revoke_delegation", d, "tokens added")
    /\ UNCHANGED << agents, users, delegations, active_tokens,
                    system_activities, disk, now, uuid_count, histVars,
                    idpVars, sideVars >>

\* StorageManager.revoke_delegation, lines 475-487: Delegation.revoke, save,
\* log, release the lock
RevokeEnd(th) ==
    /\ pc[th].op = "revoke_delegation"
    /\ LET d == pc[th].d
           r == revoke(delegations[d], now)
           ds == [delegations EXCEPT ![d] = r.self]
           log == log_activity(system_activities, "delegation_revoked", d)
       IN IF r.raised
          THEN /\ Result("revoke_delegation", d, "ValueError")
               /\ UNCHANGED << delegations, system_activities, disk >>
          ELSE /\ delegations' = ds
               /\ system_activities' = log
               /\ disk' = Save([disk EXCEPT !.delegations = ds,
                                            !.tokens = [active_tokens |-> active_tokens,
                                                        revoked_tokens |-> revoked_tokens],
                                            !.activities = log])
               /\ Result("revoke_delegation", d, "True")
    /\ lock' = Free
    /\ pc' = [pc EXCEPT ![th] = Idle]
    /\ UNCHANGED << agents, users, active_tokens, revoked_tokens, now,
                    uuid_count, histVars, idpVars, sideVars >>

NextAtomic ==
    \/ Tick
    \/ \E a \in AgentIds, u \in UserIds, sc \in ScopeInputs, st \in StatusInputs :
          CreateDelegation(a, u, sc, st)
    \/ \E th \in Threads, d \in 1..MaxDelegations : ApproveBegin(th, d)
    \/ \E th \in Threads : ApproveEnd(th)
    \/ \E th \in Threads, d \in 1..MaxDelegations : RevokeBegin(th, d)
    \/ \E th \in Threads : RevokeEnd(th)

SpecAtomic == Init /\ [][NextAtomic]_vars

\* ------------------------------------------------------------------ activity logs
MaxLogCalls == 4
LimitInputs == {0 - 1, 0, 1, GetLimit, GetLimit + 1}
StartLengths == {0, ActivityLimit - 2}

\* a log of n entries written before start-up, numbered 1-n .. 0
Entries(n) == [i \in 1..n |-> [action |-> "loaded", ref |-> i - n]]

InitLog ==
    \E n \in StartLengths, m \in StartLengths : BootLog("", Entries(n), Entries(m))

\* StorageManager.log_activity called directly; the entries are numbered
LogActivity ==
    /\ lock = Free
    /\ log_calls < MaxLogCalls
    /\ LET log == log_activity(system_activities, "logged", log_calls + 1)
       IN /\ system_activities' = log
          /\ disk' = Save([disk EXCEPT !.activities = log])
    /\ log_calls' = log_calls + 1
    /\ Result("log_activity", log_calls + 1, "ok")
    /\ UNCHANGED << agents, users, delegations, active_tokens, revoked_tokens,
                    now, uuid_count, lock, threadVars, histVars, idpVars,
                    writable, introspected, returned, SYSTEM_LOGS, apiVars >>

\* api_server.log_activity
ApiLogActivity ==
    /\ log_calls < MaxLogCalls
    /\ SYSTEM_LOGS' = api_log_activity(SYSTEM_LOGS,
                                       [action |-> "logged", ref |-> log_calls + 1])
    /\ log_calls' = log_calls + 1
    /\ Result("api_log_activity", log_calls + 1, "ok")
    /\ UNCHANGED << storeVars, now, uuid_count, lock, threadVars, histVars,
                    idpVars, writable, introspected, returned, apiVars >>

\* StorageManager.get_activities(limit)
GetActivities(limit) ==
    /\ lock = Free
    /\ returned' = get_activities(system_activities, limit)
    /\ Result("get_activities", limit, "ok")
    /\ UNCHANGED << storeVars, now, uuid_count, lock, threadVars, histVars,
                    idpVars, writable, introspected, logVars, apiVars >>

\* GET /api/logs?limit=<limit>
GetLogs(limit) ==
    /\ returned' = get_activities(SYSTEM_LOGS, limit)
    /\ Result("get_logs", limit, "200")
    /\ UNCHANGED << storeVars, now, uuid_count, lock, threadVars, histVars,
                    idpVars, writable, introspected, logVars, apiVars >>

NextLog ==
    \/ LogActivity
    \/ ApiLogActivity
    \/ \E limit \in LimitInputs : GetActivities(limit)
    \/ \E limit \in LimitInputs : GetLogs(limit)

SpecLog == InitLog /\ [][NextLog]_vars

\* ------------------------------------------------------------------ agents under arbitrary updates
\* update dictionaries a caller of update_agent can pass: any keys, any values
ArbitraryUpdates ==
    UpdateInputs \cup {[status |-> "archived"], [id |-> "other"],
                       [name |-> "B", owner |-> "x"]}

NextAgentUpdates ==
    \/ \E th \in Threads, a \in AgentIds, n \in NameInputs : RegisterLookup(th, a, n)
    \/ \E th \in Threads : RegisterCreate(th)
    \/ \E a \in AgentIds, up \in ArbitraryUpdates : UpdateAgent(a, up)

SpecAgentUpdates == Init /\ [][NextAgentUpdates]_vars

\* ------------------------------------------------------------------ management API
MaxApiCalls == 4

\* api_server.Delegation(...) as POST /api/delegations builds it
ApiDelegation(id, agent_id, user_id, scopes, t) ==
    [id |-> id, agent_id |-> agent_id, user_id |-> user_id, scopes |-> scopes,
     status |-> "pending", created_at |-> t, approved_at |-> None,
     expires_at |-> t + delegation_token_expiry,
     delegation_token |-> NoneTok, access_token |-> NoneTok]

ApiExists(d) == d \in 1..Len(DELEGATIONS)

\* every request that changes something logs one entry
ApiLog(action, ref) ==
    SYSTEM_LOGS' = api_log_activity(SYSTEM_LOGS, [action |-> action, ref |-> ref])

ApiFrame ==
    UNCHANGED << storeVars, now, uuid_count, lock, threadVars, histVars, idpVars,
                 writable, introspected, returned, log_calls, USERS >>

\* POST /api/delegations
ApiCreateDelegation(a, u, sc) ==
    /\ Len(SYSTEM_LOGS) < MaxApiCalls
    /\ Len(DELEGATIONS) < MaxDelegations
    /\ IF a \notin DOMAIN AGENTS \/ u \notin USERS
       THEN /\ Result("api_create_delegation", a, "404")
            /\ UNCHANGED << DELEGATIONS, SYSTEM_LOGS >>
       ELSE /\ DELEGATIONS' = Append(DELEGATIONS,
                                     ApiDelegation(Len(DELEGATIONS) + 1, a, u, sc, now))
            /\ ApiLog("delegation_created", Len(DELEGATIONS) + 1)
            /\ Result("api_create_delegation", a, "201")
    /\ UNCHANGED << AGENTS, REVOKED_TOKENS >>
    /\ ApiFrame

\* PUT /api/delegations/<id>/approve
ApiApproveDelegation(d) ==
    /\ Len(SYSTEM_LOGS) < MaxApiCalls
    /\ IF ~ApiExists(d)
       THEN /\ Result("api_approve_delegation", d, "404")
            /\ UNCHANGED << AGENTS, DELEGATIONS, SYSTEM_LOGS >>
       ELSE IF DELEGATIONS[d].status # "pending"
       THEN /\ Result("api_approve_delegation", d, "400")
            /\ UNCHANGED << AGENTS, DELEGATIONS, SYSTEM_LOGS >>
       ELSE LET self == DELEGATIONS[d]
                tok == JwtEncode("delegation", self.agent_id, self.user_id,
                                 self.scopes, now, now + delegation_token_expiry,
                                 << >>, d, "", "")
            IN /\ DELEGATIONS' = [DELEGATIONS EXCEPT ![d] =
                                     [self EXCEPT !.status = "approved",
                                                  !.approved_at = now,
                                                  !.delegation_token = tok]]
               /\ AGENTS' = IF self.agent_id \in DOMAIN AGENTS
                            THEN [AGENTS EXCEPT ![self.agent_id] =
                                     [@ EXCEPT !.delegation_count = @ + 1,
                                               !.last_used = now]]
                            ELSE AGENTS
               /\ ApiLog("delegation_approved", d)
               /\ Result("api_approve_delegation", d, "200")
    /\ UNCHANGED REVOKED_TOKENS
    /\ ApiFrame

\* PUT /api/delegations/<id>/deny
ApiDenyDelegation(d) ==
    /\ Len(SYSTEM_LOGS) < MaxApiCalls
    /\ IF ~ApiExists(d)
       THEN /\ Result("api_deny_delegation", d, "404")
            /\ UNCHANGED << DELEGATIONS, SYSTEM_LOGS >>
       ELSE IF DELEGATIONS[d].status # "pending"
       THEN /\ Result("api_deny_delegation", d, "400")
            /\ UNCHANGED << DELEGATIONS, SYSTEM_LOGS >>
       ELSE /\ DELEGATIONS' = [DELEGATIONS EXCEPT ![d].status = "denied"]
            /\ ApiLog("delegation_denied", d)
            /\ Result("api_deny_delegation", d, "200")
    /\ UNCHANGED << AGENTS, REVOKED_TOKENS >>
    /\ ApiFrame

\* DELETE /api/delegations/<id>
ApiRevokeDelegation(d) ==
    /\ Len(SYSTEM_LOGS) < MaxApiCalls
    /\ IF ~ApiExists(d)
       THEN /\ Result("api_revoke_delegation", d, "404")
            /\ UNCHANGED << DELEGATIONS, REVOKED_TOKENS, SYSTEM_LOGS >>
       ELSE /\ DELEGATIONS' = [DELEGATIONS EXCEPT ![d].status = "revoked"]
            /\ REVOKED_TOKENS' = REVOKED_TOKENS \cup RecordedTokens(DELEGATIONS[d])
            /\ ApiLog("delegation_revoked", d)
            /\ Result("api_revoke_delegation", d, "200")
    /\ UNCHANGED AGENTS
    /\ ApiFrame

NextApi ==
    \/ Tick
    \/ \E a \in AgentIds, u \in UserIds, sc \in ScopeInputs : ApiCreateDelegation(a, u, sc)
    \/ \E d \in 1..MaxDelegations : ApiApproveDelegation(d)
    \/ \E d \in 1..MaxDelegations : ApiDenyDelegation(d)
    \/ \E d \in 1..MaxDelegations : ApiRevokeDelegation(d)

SpecApi == Init /\ [][NextApi]_vars

\* ------------------------------------------------------------------ the store alone
NextStore ==
    \/ Tick
    \/ \E a \in AgentIds, u \in UserIds, sc \in ScopeInputs, st \in StatusInputs :
          CreateDelegation(a, u, sc, st)
    \/ \E d \in 1..MaxDelegations : ApproveDelegation(d)
    \/ \E d \in 1..MaxDelegations : DenyDelegation(d)
    \/ \E d \in 1..MaxDelegations : RevokeDelegation(d)
    \/ \E d \in 1..MaxDelegations : GenerateAccessToken(d)
    \/ \E a \in AgentIds : DeleteAgentRemove(a)
    \/ DeleteAgentCascade

SpecStore == Init /\ [][NextStore]_vars


\* ------------------------------------------------------------------ claims
\* C1: once POST /revoke has answered 200 for a token, POST /introspect
\* answers active=false for it and GET /data answers 403 (when its
\* introspection request is answered), in every later state
C1_RevokedStaysInactive ==
    \A t \in revoke_ok :
        /\ ~introspect(t).active
        /\ data(t, TRUE) = 403
        /\ data(t, FALSE) # 200

\* C1 witness: an unexpired access token was revoked, and a later revocation
\* of another token and a later operation have happened
C1_Witness ==
    /\ \E t \in revoke_ok : t.typ = "access" /\ JwtDecode(t, now) = "ok"
    /\ Cardinality(revoke_ok) = 2
    /\ last.op # "revoke"

\* C2 (as claimed): the access token just returned by POST /token
\* introspects active
C2_MintedIsActive ==
    (last.op = "token" /\ last.res = "200") => introspect(minted[Len(minted)]).active

\* C3 (as claimed): the access tokens returned by POST /token have pairwise
\* different jti
C3_FreshJti ==
    \A i, j \in 1..Len(minted) : i # j => minted[i].jti # minted[j].jti

\* the delegation a token names is in status approved
DelegationApproved(t) ==
    /\ Exists(t.delegation_id)
    /\ delegations[t.delegation_id].status = "approved"

\* C4 (as claimed): a token introspects active exactly when its signature
\* verifies, it is not expired, it is not revoked and its delegation is approved
C4_ActiveIffFourConditions ==
    \A t \in Presentable :
        introspect(t).active <=>
            /\ t.alg = "HS256" /\ t.sig = "ok"
            /\ t.exp > now
            /\ t \notin revoked_tokens
            /\ DelegationApproved(t)

\* C5 (as claimed): once delete_agent has returned, every access token
\* that had been minted for the agent when the delete began introspects
\* inactive and GET /data answers 403 for it
C5_DeletedAgentTokensInactive ==
    \A t \in delete_tokens :
        (t.other \notin DOMAIN agents /\ lock = Free) =>
            ~introspect(t).active /\ data(t, TRUE) = 403

\* C6 (as claimed): the recorded tokens of every revoked delegation are in
\* the revocation set
C6_RevokedDelegationTokensRevoked ==
    \A d \in 1..Len(delegations) :
        delegations[d].status = "revoked" =>
            RecordedTokens(delegations[d]) \subseteq revoked_tokens

\* C7 (as claimed): no state, in memory or on disk, lacks the agent's record
\* while a delegation that was approved when its delete began is approved
C7_RevokedBeforeAgentRemoved ==
    \A d \in delete_approved :
        /\ delegations[d].agent_id \notin DOMAIN agents =>
               delegations[d].status # "approved"
        /\ delegations[d].agent_id \notin DOMAIN disk.agents =>
               disk.delegations[d].status # "approved"

\* C8: approve_delegation of an existing delegation that is not pending
\* raises and leaves the delegations, the agents and the activity log as
\* they were
C8_ApproveNonPendingRejected ==
    [][\A d \in 1..MaxDelegations :
          (/\ last'.op = "approve_delegation"
           /\ last'.arg = d
           /\ Exists(d)
           /\ delegations[d].status # "pending")
          => /\ last'.res = "ValueError"
             /\ delegations' = delegations
             /\ agents' = agents
             /\ system_activities' = system_activities
             /\ disk' = disk]_vars

\* C8 witness: a second approval of an approved delegation was rejected and
\* the token of the first approval is the recorded one
C8_Witness ==
    /\ last.op = "approve_delegation"
    /\ last.res = "ValueError"
    /\ Exists(last.arg)
    /\ delegations[last.arg].status = "approved"
    /\ delegations[last.arg].delegation_token.iat = delegations[last.arg].approved_at
    /\ agents[delegations[last.arg].agent_id].delegation_count = 1

\* C9 (as claimed): no delegation was approved after its expires_at
C9_ApprovedBeforeExpiry ==
    \A d \in 1..Len(delegations) :
        delegations[d].approved_at # None =>
            delegations[d].approved_at <= delegations[d].expires_at

AllowedStatusChanges ==
    {<< "pending", "approved" >>, << "pending", "denied" >>,
     << "pending", "revoked" >>, << "approved", "revoked" >>,
     << "approved", "expired" >>}

\* C10: every change of a delegation's status is one of pending to approved,
\* denied or revoked and approved to revoked or expired; so denied, revoked
\* and expired are never left
C10_StatusMachine ==
    [][\A d \in 1..Len(delegations) :
          delegations'[d].status # delegations[d].status =>
              << delegations[d].status, delegations'[d].status >>
                  \in AllowedStatusChanges]_vars

\* C10 witness: a revoke_delegation call on a denied delegation was rejected
C10_Witness ==
    /\ last.op = "revoke_delegation"
    /\ last.res = "ValueError"
    /\ delegations[last.arg].status = "denied"

\* C11 (as claimed): after approve_delegation, deny_delegation or
\* revoke_delegation was applied to a delegation whose expires_at is earlier
\* than the time of the call, the delegation is neither pending nor approved
C11_ExpiredDemotedByOperation ==
    (/\ last.op \in {"approve_delegation", "deny_delegation", "revoke_delegation"}
     /\ Exists(last.arg)
     /\ delegations[last.arg].expires_at < now)
    => delegations[last.arg].status \notin {"pending", "approved"}

\* C13 (as claimed): an access token minted from a delegation expires no
\* later than the delegation
C13_AccessExpiryWithinDelegation ==
    \A d \in 1..Len(delegations) :
        delegations[d].access_token # NoneTok =>
            delegations[d].access_token.exp <= delegations[d].expires_at

\* C12: the access token just returned by POST /token has the delegator of
\* the presented delegation token as sub, its sub as actor and its scope list
C12_ExchangePreservesPrincipals ==
    (last.op = "token" /\ last.res = "200") =>
        LET a == minted[Len(minted)]
            d == last.arg.token
        IN /\ a.typ = "access"
           /\ a.sub = d.other
           /\ a.other = d.sub
           /\ a.scope = d.scope

\* C12 witness: an exchange of a delegation token with a scope succeeded
C12_Witness ==
    /\ last.op = "token"
    /\ last.res = "200"
    /\ last.arg.token.scope = << "read:data" >>
    /\ last.arg.token.sub # last.arg.token.other

Refused == {"403 expired", "403 invalid", "403 revoked", "403 verifier"}

\* C17: POST /token with a token that records a code challenge and with no
\* code_verifier answers 403, leaves the active-token list as it was and
\* mints nothing
C17_MissingVerifierRefused ==
    [][(/\ last'.op = "token"
        /\ IsToken(last'.arg.token)
        /\ last'.arg.token.code_challenge # ""
        /\ last'.arg.code_verifier = "")
       => /\ last'.res \in Refused
          /\ active_tokens' = active_tokens
          /\ minted' = minted
          /\ pc' = pc]_vars

\* C17 witness: a valid, unrevoked delegation token with a challenge was
\* presented without a verifier and refused for that reason
C17_Witness ==
    /\ last.op = "token"
    /\ last.res = "403 verifier"
    /\ last.arg.code_verifier = ""
    /\ last.arg.token \in issued
    /\ last.arg.token.code_challenge_method = "S256"

\* the verifier v answers the challenge of token tok
Answers(tok, v) ==
    IF tok.code_challenge_method = "S256"
    THEN S256(v) = tok.code_challenge
    ELSE v = tok.code_challenge

\* C18: for a valid, unrevoked delegation token that records a challenge,
\* POST /token goes on to mint exactly when the verifier answers the
\* challenge (S256: its digest equals it; plain: it equals it); otherwise it
\* answers 403 and mints nothing; and no access token is returned for a
\* verifier that does not answer the challenge
C18_VerifierDecidesExchange ==
    [][(/\ last'.op = "token"
        /\ IsToken(last'.arg.token)
        /\ last'.arg.token.typ = "delegation"
        /\ last'.arg.token.code_challenge # "")
       => LET tok == last'.arg.token
              v == last'.arg.code_verifier
          IN /\ last'.res = "200" => Answers(tok, v)
             /\ (/\ last'.res # "200"
                 /\ JwtDecode(tok, now) = "ok"
                 /\ tok \notin revoked_tokens)
                => IF Answers(tok, v)
                   THEN last'.res = "checked"
                   ELSE /\ last'.res \in Refused
                        /\ active_tokens' = active_tokens
                        /\ minted' = minted
                        /\ pc' = pc]_vars

\* C18 witness: an S256-bound delegation token was exchanged with the
\* verifier whose digest is the challenge
C18_Witness ==
    /\ last.op = "token"
    /\ last.res = "200"
    /\ last.arg.token.code_challenge_method = "S256"
    /\ last.arg.token.code_challenge = "h1"
    /\ last.arg.code_verifier = "v1"

\* C20: a token whose header names an algorithm other than HS256 introspects
\* inactive, and POST /token refuses it as invalid
C20_OtherAlgorithmRefused ==
    /\ \A t \in Presentable : t.alg # "HS256" => ~introspect(t).active
    /\ (/\ last.op = "token"
        /\ IsToken(last.arg.token)
        /\ last.arg.token.alg # "HS256")
       => last.res = "403 invalid"

\* C20 witness: an unexpired delegation token re-signed under HS384 was
\* presented to POST /token
C20_Witness ==
    /\ last.op = "token"
    /\ IsToken(last.arg.token)
    /\ last.arg.token.alg = "HS384"
    /\ last.arg.token.sig = "ok"
    /\ last.arg.token.typ = "delegation"
    /\ last.arg.token.exp > now
    /\ AlgNone(last.arg.token) \in Presentable

Range(f) == {f[i] : i \in DOMAIN f}

\* C14 (as claimed): while an agent declares a non-empty scope list, its
\* delegations and its delegation tokens from GET /authorize carry only
\* scopes of that list
C14_ScopesWithinAgentList ==
    /\ \A d \in 1..Len(delegations) :
          LET a == delegations[d].agent_id
          IN (a \in DOMAIN agents /\ agents[a].scopes # << >>) =>
                Range(delegations[d].scopes) \subseteq Range(agents[a].scopes)
    /\ \A t \in DelegationTokens(issued) :
          (t.sub \in DOMAIN agents /\ agents[t.sub].scopes # << >>) =>
                Range(t.scope) \subseteq Range(agents[t.sub].scopes)

\* C15: GET /authorize without an identity provider answers 200 only for a
\* registered agent and a registered user; for any other request it answers
\* 403 and hands out no token
C15_AuthorizeOnlyRegistered ==
    [][(last'.op = "authorize" /\ keycloak_url = "") =>
          LET registered == /\ last'.arg[1] \in DOMAIN agents
                            /\ last'.arg[2] \in users
          IN /\ last'.res = "200" => registered
             /\ ~registered => (last'.res = "403" /\ issued' = issued)]_vars

\* C15 witness: a request of a registered agent for an unregistered user was
\* answered 403
C15_Witness ==
    /\ last.op = "authorize"
    /\ last.res = "403"
    /\ last.arg[1] \in DOMAIN agents
    /\ last.arg[2] \notin users

\* the agent an issuing call names: client_id of GET /authorize, agent_id of
\* create_delegation
IssuedFor ==
    IF last.op = "authorize" THEN last.arg[1] ELSE last.arg

\* C16 (as claimed): GET /authorize and create_delegation for an agent that
\* is not active are rejected
C16_OnlyActiveAgents ==
    (/\ last.op \in {"authorize", "create_delegation"}
     /\ IssuedFor \in DOMAIN agents
     /\ agents[IssuedFor].status # "active")
    => last.res \in {"403", "ValueError"}

\* C19 (as claimed): a delegation token returned by GET /callback for a flow
\* that began with a code_challenge is exchanged only with a verifier that
\* answers that challenge
C19_ChallengeSurvivesCallback ==
    (last.op = "token" /\ last.res \in {"checked", "200"}) =>
        \A b \in bound :
            b.token = last.arg.token =>
                IF b.code_challenge_method = "S256"
                THEN S256(last.arg.code_verifier) = b.code_challenge
                ELSE last.arg.code_verifier = b.code_challenge

\* C21: POST /token answers 403 expired for an expired delegation token, 403
\* invalid for a malformed or wrongly signed one and 403 for a revoked one;
\* it goes on to mint only when the token verified, was unexpired and was
\* not revoked at its check; and a refusal leaves the active-token list as
\* it was
C21_ExchangeRefusals ==
    [][(last'.op = "token" /\ last'.res # "200") =>
          LET tok == last'.arg.token
              dec == IF ~IsToken(tok) \/ tok.alg # "HS256" \/ tok.sig # "ok"
                     THEN "invalid"
                     ELSE IF tok.exp <= now THEN "expired" ELSE "ok"
          IN /\ dec = "expired" => last'.res = "403 expired"
             /\ dec = "invalid" => last'.res = "403 invalid"
             /\ (dec = "ok" /\ tok \in revoked_tokens) => last'.res = "403 revoked"
             /\ last'.res = "checked" => (dec = "ok" /\ tok \notin revoked_tokens)
             /\ last'.res \in Refused =>
                   /\ active_tokens' = active_tokens
                   /\ minted' = minted
                   /\ pc' = pc]_vars

\* C21 witness: a delegation token handed out by GET /authorize was
\* presented after its expiry and refused as expired
C21_Witness ==
    /\ last.op = "token"
    /\ last.res = "403 expired"
    /\ last.arg.token \in issued
    /\ last.arg.token.typ = "delegation"
    /\ last.arg.token \notin revoked_tokens

\* C22 (as claimed): every POST /revoke is answered with success
C22_RevokeAlwaysSucceeds ==
    last.op = "revoke" => last.res = "200"

Malformed(auth) == Falsy(auth) \/ ~StartsWithBearer(auth) \/ auth.credentials = << >>

\* C24 (as claimed): GET /data answers 401 for every request whose
\* Authorization header is missing or malformed, the header "Bearer " with no
\* token included, and posts nothing to /introspect for it
C24_MalformedHeaderUnauthorized ==
    (last.op = "data" /\ Malformed(last.arg.header)) =>
        (last.res = "401" /\ ~introspected)

\* C25 (as claimed): GET /data with a valid, active access token and no DPoP
\* proof header is answered 401 (the authorization server being reachable)
C25_MissingProofRefused ==
    (/\ last.op = "data"
     /\ last.arg.dpop = ""
     /\ ~Malformed(last.arg.header)
     /\ last.arg.header.credentials[1].typ = "access"
     /\ introspect(last.arg.header.credentials[1]).active
     /\ last.arg.answered) =>
        last.res = "401"

PersistOps ==
    {"register", "register_user", "approve_delegation", "revoke_delegation",
     "revoke", "delete_agent"}

\* C26 (as claimed): a store operation whose persistence write fails leaves
\* the in-memory agents, users, delegations, active tokens and revocation
\* set as they were before it
C26_FailedWriteLeavesMemory ==
    [][(~writable /\ last'.op \in PersistOps) =>
          /\ agents' = agents
          /\ users' = users
          /\ delegations' = delegations
          /\ active_tokens' = active_tokens
          /\ revoked_tokens' = revoked_tokens]_vars

\* C27 (as claimed): when every persistence write so far succeeded, a
\* restart yields the agents, users, delegations and revocation set that
\* were in memory just before it
C27_RestartRecoversMemory ==
    [][(last'.op = "restart" /\ writable) =>
          /\ agents' = agents
          /\ users' = users
          /\ delegations' = delegations
          /\ revoked_tokens' = revoked_tokens]_vars

\* the delegations of agent a that were approved at some time
ApprovalsOf(a) ==
    {d \in 1..Len(delegations) :
        delegations[d].agent_id = a /\ delegations[d].approved_at # None}

\* C28: whenever another store operation can take the lock, every approval
\* has been counted on its agent and every delegation revoked by
\* revoke_delegation has its recorded tokens in the revocation set
C28_CompoundOperationsAtomic ==
    lock = Free =>
        /\ \A a \in DOMAIN agents :
              agents[a].delegation_count = Cardinality(ApprovalsOf(a))
        /\ \A d \in 1..Len(delegations) :
              delegations[d].status = "revoked" =>
                  RecordedTokens(delegations[d]) \subseteq revoked_tokens

\* C28 witness: an approval and a revocation of the same delegation have
\* both completed
C28_Witness ==
    /\ lock = Free
    /\ last.op = "revoke_delegation" /\ last.res = "True"
    /\ delegations[last.arg].approved_at # None
    /\ agents[delegations[last.arg].agent_id].delegation_count = 1

\* what an append to log makes of it when at most ActivityLimit entries are
\* kept and the oldest goes first
Appended(log, entry) ==
    IF Len(log) >= ActivityLimit THEN Append(Tail(log), entry) ELSE Append(log, entry)

\* C29: an activity log never holds more than 1000 entries, and an append
\* keeps the entries in append order with the new one last, dropping exactly
\* the oldest entry when the log was full (StorageManager's log and
\* api_server's log alike)
C29_ActivityLogRing ==
    [][/\ Len(system_activities') <= ActivityLimit
       /\ Len(SYSTEM_LOGS') <= ActivityLimit
       /\ last'.op = "log_activity" /\ log_calls' # log_calls =>
             system_activities' =
                 Appended(system_activities, [action |-> "logged", ref |-> last'.arg])
       /\ last'.op = "api_log_activity" /\ log_calls' # log_calls =>
             SYSTEM_LOGS' =
                 Appended(SYSTEM_LOGS, [action |-> "logged", ref |-> last'.arg])]_vars

\* C29 witness: a full StorageManager log received an append and lost its
\* oldest entry
C29_Witness ==
    /\ last.op = "log_activity"
    /\ Len(system_activities) = ActivityLimit
    /\ system_activities[ActivityLimit].ref = last.arg
    /\ system_activities[1].ref > 3 - ActivityLimit

\* C30 (as claimed): get_activities(limit) and GET /api/logs return the last
\* min(limit, 100) entries, never more than 100 and never more than limit
\* entries, for limit = 0 and negative limits too
C30_LimitBoundsResult ==
    last.op \in {"get_activities", "get_logs"} =>
        /\ Len(returned) <= GetLimit
        /\ Len(returned) <= (IF last.arg < 0 THEN 0 ELSE last.arg)

\* C31: a revoke_token call adds at most the one token to the revocation set
\* and at most one entry to the activity log; the delegations (status and
\* recorded tokens), the agents, the users and the active-token list stay as
\* they were
C31_RevokeTokenFrame ==
    [][revoke_calls' # revoke_calls =>
          /\ delegations' = delegations
          /\ agents' = agents
          /\ users' = users
          /\ active_tokens' = active_tokens
          /\ revoked_tokens \subseteq revoked_tokens'
          /\ Cardinality(revoked_tokens' \ revoked_tokens) <= 1
          /\ \/ system_activities' = system_activities
             \/ system_activities' =
                    log_activity(system_activities, "token_revoked", None)]_vars

\* C31 witness: the token of an approved delegation was revoked on its own
\* and the delegation is still approved
C31_Witness ==
    /\ last.op = "revoke" /\ last.res = "200"
    /\ \E d \in 1..Len(delegations) :
          /\ delegations[d].status = "approved"
          /\ delegations[d].delegation_token \in revoke_ok
          /\ delegations[d].delegation_token \in revoked_tokens

\* C32 (as claimed): DELETE /api/delegations/<id> moves a delegation to
\* revoked only from pending or approved; a denied or expired delegation
\* keeps its status
C32_ApiRevokeGuard ==
    [][\A d \in 1..Len(DELEGATIONS) :
          (DELEGATIONS'[d].status = "revoked" /\ DELEGATIONS[d].status # "revoked")
              => DELEGATIONS[d].status \in {"pending", "approved"}]_vars

\* C33 (as claimed): of two concurrent POST /register requests for the same
\* unregistered client_id one is answered 201 and the other 409, so that a
\* registration is never answered otherwise than 201 or 409
C33_RaceLoserGetsConflict ==
    last.op = "register" => last.res \in {"lookup", "201", "409"}

C35_FailedRevokeChangesNothing ==
    [][(last'.op = "revoke_delegation" /\ last'.res \in {"ValueError", "False"}) =>
          /\ revoked_tokens' = revoked_tokens
          /\ delegations' = delegations
          /\ system_activities' = system_activities]_vars

\* C36 (as claimed): the delegation token minted by approve expires no later
\* than its delegation
C36_TokenWithinDelegation ==
    \A d \in 1..Len(delegations) :
        delegations[d].delegation_token # NoneTok =>
            delegations[d].delegation_token.exp <= delegations[d].expires_at

\* C37 (as claimed): when revoke_delegation(d) succeeds, every access token
\* that generate_access_token ever produced from d is in the revocation set
C37_AllMintsRevoked ==
    [][(last'.op = "revoke_delegation" /\ last'.res = "True") =>
          \A t \in issued :
              (t.typ = "access" /\ t.delegation_id = last'.arg) =>
                  t \in revoked_tokens']_vars

\* C38 (as claimed): after any create_agent and update_agent calls every
\* stored agent's status is one of active, inactive, suspended (an agent's id
\* is the key it is stored under; update_agent skips the field id)
C38_AgentStatusValid ==
    \A a \in DOMAIN agents : agents[a].status \in AgentStatus

\* C39 (as claimed): outside a running delete_agent every approved delegation
\* refers to an agent that exists in the store
C39_ApprovedAgentExists ==
    lock = Free =>
        \A d \in DOMAIN delegations :
            delegations[d].status = "approved" => delegations[d].agent_id \in DOMAIN agents
====
